---- MODULE Spec2Model ----
(***************************************************************************)
(* Model of the GitHub folder downloader of src-tauri/src/lib.rs:          *)
(* download_github_folder, list_github_contents_recursive,                 *)
(* download_files_parallel, download_via_zipball and cancel_git_download.  *)
(*                                                                         *)
(* A path string is a sequence of its '/'-separated segments.  An error    *)
(* string is a sequence of words, so that String::contains is a search for *)
(* a contiguous run of words.  One action is one resumption of the async   *)
(* command: the code from one .await to the next runs without any other    *)
(* step of the same run in between (the futures of buffer_unordered are    *)
(* polled by the task of the command itself); cancel_git_download runs on  *)
(* another task and may fall between any two actions.                      *)
(***************************************************************************)
EXTENDS Integers, Sequences, FiniteSets, TLC

\* ---------------------------------------------------------------- bounds
\* Chunks the archive body is delivered in, at most.
MaxChunks == 2
\* Files of the large flat folder used to fill the fetcher's buffer.
BigFiles == 9
\* Files of the flat folder used to follow the progress of a long batch.
ManyFiles == 85

\* ------------------------------------------------------ program constants
concurrency == 8

None == -1

Min(a, b) == IF a < b THEN a ELSE b
Max(a, b) == IF a > b THEN a ELSE b

\* ------------------------------------------------------------ f64 values
\* The arithmetic of lib.rs:1323, 1433 and 1593 is done in f64.  A positive
\* f64 is [m, e]: m the 53 significant bits, the first of them 1, and the
\* value 0.m * 2^e; zero has no bits.  Bits are handled ten at a time.
MANTISSA_DIGITS == 53

F64Zero == [m |-> <<>>, e |-> 0]

\* The w low bits of n, first the highest.
BitsOf(n, w) == [i \in 1..w |-> (n \div (2 ^ (w - i))) % 2]

\* The bits of n, the first of them 1; none for 0.
Bin(n) ==
    IF n = 0 THEN <<>>
    ELSE BitsOf(n, CHOOSE w \in 1..30 : 2 ^ (w - 1) <= n /\ n < 2 ^ w)

RECURSIVE Val(_)
Val(bits) ==
    IF bits = <<>> THEN 0
    ELSE 2 * Val(SubSeq(bits, 1, Len(bits) - 1)) + bits[Len(bits)]

Zeros(n) == [i \in 1..n |-> 0]

\* bits + 1, one bit longer when every bit was 1.
Incr(bits) ==
    IF \A i \in 1..Len(bits) : bits[i] = 1
      THEN <<1>> \o Zeros(Len(bits))
    ELSE LET p == CHOOSE i \in 1..Len(bits) :
                     /\ bits[i] = 0
                     /\ \A j \in (i + 1)..Len(bits) : bits[j] = 1
         IN  [i \in 1..Len(bits) |->
                 IF i < p THEN bits[i] ELSE IF i = p THEN 1 ELSE 0]

\* Round to nearest, ties to even: the bits of an exact result, the first
\* of them 1, sticky telling whether more of the result lies below them.
\* Gives the significand, and up = 1 when rounding carried into a new bit.
RoundNearestEven(bits, sticky) ==
    IF Len(bits) <= MANTISSA_DIGITS
      THEN [m |-> bits \o Zeros(MANTISSA_DIGITS - Len(bits)), up |-> 0]
    ELSE LET head == SubSeq(bits, 1, MANTISSA_DIGITS)
             guard == bits[MANTISSA_DIGITS + 1]
             rest == sticky \/ \E i \in (MANTISSA_DIGITS + 2)..Len(bits) :
                                    bits[i] = 1
             inc == Incr(head)
         IN  IF guard = 1 /\ (rest \/ head[MANTISSA_DIGITS] = 1)
               THEN IF Len(inc) > MANTISSA_DIGITS
                      THEN [m |-> SubSeq(inc, 1, MANTISSA_DIGITS), up |-> 1]
                      ELSE [m |-> inc, up |-> 0]
               ELSE [m |-> head, up |-> 0]

\* For a < b: a / b = (A / b) * 2^e with 1/2 <= A / b < 1.
RECURSIVE Normalise(_, _, _)
Normalise(a, b, e) ==
    IF 2 * a < b THEN Normalise(2 * a, b, e - 1) ELSE [a |-> a, e |-> e]

\* The first n bits of r / b after the binary point (r < b < 2^20), and
\* what is left of r.
RECURSIVE DivBits(_, _, _)
DivBits(r, b, n) ==
    IF n = 0 THEN [bits |-> <<>>, rem |-> r]
    ELSE LET w == Min(n, 10)
             scaled == r * (2 ^ w)
             tail == DivBits(scaled % b, b, n - w)
         IN  [bits |-> BitsOf(scaled \div b, w) \o tail.bits,
              rem |-> tail.rem]

\* a as f64 / b as f64, for integers 0 <= a < 2^30, 0 < b < 2^20.
F64Div(a, b) ==
    IF a = 0 THEN F64Zero
    ELSE IF a >= b
      THEN LET int == Bin(a \div b)
               q == DivBits(a % b, b, MANTISSA_DIGITS + 1 - Len(int))
               r == RoundNearestEven(int \o q.bits, q.rem # 0)
           IN  [m |-> r.m, e |-> Len(int) + r.up]
    ELSE LET n == Normalise(a, b, 0)
             q == DivBits(n.a, b, MANTISSA_DIGITS + 1)
             r == RoundNearestEven(q.bits, q.rem # 0)
         IN  [m |-> r.m, e |-> n.e + r.up]

\* The bits of Val(m) * k + carry, for 0 < k < 2^20.
RECURSIVE MulBits(_, _, _)
MulBits(m, k, carry) ==
    IF m = <<>> THEN Bin(carry)
    ELSE LET w == Min(Len(m), 10)
             v == Val(SubSeq(m, Len(m) - w + 1, Len(m))) * k + carry
         IN  MulBits(SubSeq(m, 1, Len(m) - w), k, v \div (2 ^ w)) \o
                 BitsOf(v % (2 ^ w), w)

\* x * (k as f64), for an integer 0 < k < 2^20.
F64Mul(x, k) ==
    IF x.m = <<>> THEN F64Zero
    ELSE LET p == MulBits(x.m, k, 0)
             r == RoundNearestEven(p, FALSE)
         IN  [m |-> r.m, e |-> x.e - MANTISSA_DIGITS + Len(p) + r.up]

\* x as u32: the integer part of a value below 2^30.
AsU32(x) ==
    IF x.m = <<>> \/ x.e <= 0 THEN 0 ELSE Val(SubSeq(x.m, 1, x.e))

\* The bits of x after the binary point.
Fraction(x) ==
    IF x.m = <<>> THEN <<>>
    ELSE IF x.e >= 0 THEN SubSeq(x.m, x.e + 1, MANTISSA_DIGITS)
    ELSE Zeros(-x.e) \o x.m

\* x.min(k as f64), for an integer k > 0.
F64Min(x, k) == IF AsU32(x) >= k THEN F64Div(k, 1) ELSE x

\* (k as f64) + x, for an integer k > 0.
F64Add(k, x) ==
    LET int == Bin(AsU32(x) + k)
        r == RoundNearestEven(int \o Fraction(x), FALSE)
    IN  [m |-> r.m, e |-> Len(int) + r.up]

\* ------------------------------------------------------------ remote side
Entry(p, k, s, u) == [path |-> p, kind |-> k, size |-> s, url |-> u]

\* A small repository: a folder with a nested folder, three files of which
\* two share their final segment, a symlink, and a file outside the folder.
RepoSmall ==
    << Entry(<<"docs">>, "dir", 0, FALSE),
       Entry(<<"docs", "a.txt">>, "file", 3, TRUE),
       Entry(<<"docs", "sub">>, "dir", 0, FALSE),
       Entry(<<"docs", "sub", "a.txt">>, "file", 5, TRUE),
       Entry(<<"docs", "b.txt">>, "file", 4, TRUE),
       Entry(<<"docs", "link">>, "symlink", 1, FALSE),
       Entry(<<"README">>, "file", 2, TRUE) >>

\* A repository whose only content is one file in one folder.
RepoOne ==
    << Entry(<<"docs">>, "dir", 0, FALSE),
       Entry(<<"docs", "a.txt">>, "file", 3, TRUE) >>

FileNames == << "f01", "f02", "f03", "f04", "f05", "f06", "f07", "f08",
                "f09", "f10", "f11", "f12" >>

\* A flat folder of n files of one byte each.
RepoFlat(n) ==
    << Entry(<<"docs">>, "dir", 0, FALSE) >> \o
    [i \in 1..n |-> Entry(<<"docs", FileNames[i]>>, "file", 1, TRUE)]

RepoBig == RepoFlat(BigFiles)

\* A flat folder of ManyFiles files, named by their rank.
RepoMany ==
    << Entry(<<"docs">>, "dir", 0, FALSE) >> \o
    [i \in 1..ManyFiles |-> Entry(<<"docs", ToString(i)>>, "file", 1, TRUE)]

\* A repository whose tree is empty.
RepoEmpty == <<>>

\* A folder beside another whose name begins with the same text.
RepoSibling ==
    << Entry(<<"docs">>, "dir", 0, FALSE),
       Entry(<<"docs", "a.txt">>, "file", 3, TRUE),
       Entry(<<"docs-old">>, "dir", 0, FALSE),
       Entry(<<"docs-old", "c.txt">>, "file", 2, TRUE) >>

\* A tree two folders deep, with a submodule (listed as a file without
\* download URL), a symlink, a folder outside the requested one, and a
\* folder that holds nothing to download.
RepoTree ==
    << Entry(<<"docs">>, "dir", 0, FALSE),
       Entry(<<"docs", "a.txt">>, "file", 3, TRUE),
       Entry(<<"docs", "s1">>, "dir", 0, FALSE),
       Entry(<<"docs", "s1", "deep">>, "dir", 0, FALSE),
       Entry(<<"docs", "s1", "deep", "d.txt">>, "file", 4, TRUE),
       Entry(<<"docs", "s1", "mod">>, "file", 0, FALSE),
       Entry(<<"docs", "s2">>, "dir", 0, FALSE),
       Entry(<<"docs", "s2", "link">>, "symlink", 1, FALSE),
       Entry(<<"docs", "s2", "e.txt">>, "file", 2, TRUE),
       Entry(<<"other">>, "dir", 0, FALSE),
       Entry(<<"other", "x.txt">>, "file", 1, TRUE),
       Entry(<<"vendor">>, "dir", 0, FALSE),
       Entry(<<"vendor", "lib">>, "file", 0, FALSE),
       Entry(<<"vendor", "bin">>, "dir", 0, FALSE),
       Entry(<<"vendor", "bin", "tool">>, "symlink", 1, FALSE) >>

Repos == {RepoSmall, RepoOne, RepoEmpty, RepoSibling}

SubPaths == { <<>>, <<"docs">>, <<"missing">>, <<"rate limit">> }

RepoName == "widgets"
BaseOutput == <<"out">>
RootName == "acme-widgets-0a1b2c"

IsPrefix(p, q) == Len(p) <= Len(q) /\ SubSeq(q, 1, Len(p)) = p
DropPrefix(p, q) == SubSeq(q, Len(p) + 1, Len(q))
Parent(p) == SubSeq(p, 1, Len(p) - 1)
LastSeg(p) == p[Len(p)]

IsDir(r, p) == \E i \in 1..Len(r) : r[i].path = p /\ r[i].kind = "dir"

\* The Contents API's answer for directory p: its direct children.
IsChild(e, p) == Len(e.path) = Len(p) + 1 /\ IsPrefix(p, e.path)
Contents(r, p) == SelectSeq(r, LAMBDA e : IsChild(e, p))

\* The zipball: one synthetic root folder, then every entry of the tree; a
\* submodule (a file item without download URL) is an empty folder in it.
Zipball(r) ==
    << Entry(<<RootName>>, "dir", 0, FALSE) >> \o
    [i \in 1..Len(r) |->
        [r[i] EXCEPT !.path = <<RootName>> \o r[i].path,
                     !.kind = IF r[i].kind = "file" /\ ~r[i].url
                                THEN "dir" ELSE r[i].kind]]

\* ------------------------------------------------------------ error text
SegWords(s) ==
    IF s = "rate limit" THEN <<"rate", "limit">>
    ELSE IF s = "docs-old" THEN <<"docs", "-old">>
    ELSE IF s = "Access denied" THEN <<"Access", "denied">>
    ELSE <<s>>

RECURSIVE PathWords(_)
PathWords(p) ==
    IF p = <<>> THEN <<>>
    ELSE IF Len(p) = 1 THEN SegWords(p[1])
    ELSE SegWords(p[1]) \o <<"/">> \o PathWords(Tail(p))

Contains(msg, needle) ==
    \E i \in 1..(Len(msg) - Len(needle) + 1) :
        SubSeq(msg, i, i + Len(needle) - 1) = needle

Err(k, m) == [kind |-> k, msg |-> m]
NoErr == Err("none", <<>>)

CancelledErr == Err("Cancelled", <<"Download", "cancelled">>)

\* ------------------------------------------------------ HTTP responses
\* A response as the lister reads it: the status and the value of the
\* X-RateLimit-Remaining header, a sequence of characters, when present.
Response(st, present, v) == [status |-> st, present |-> present, value |-> v]

NoResponse == Response(0, FALSE, <<>>)

Statuses == {200, 403, 404, 500}

HeaderValues == { <<"0">>, <<"5">>, <<"1", "0">> }

HttpResponses ==
    {Response(st, FALSE, <<>>) : st \in Statuses} \cup
    {Response(st, TRUE, v) : st \in Statuses, v \in HeaderValues}

Digits == <<"0", "1", "2", "3", "4", "5", "6", "7", "8", "9">>

IsDigit(c) == \E i \in 1..10 : Digits[i] = c

\* str::parse::<u32> on a short text: an optional '+', then digits only.
RECURSIVE DigitsValue(_)
DigitsValue(v) ==
    IF v = <<>> THEN 0
    ELSE 10 * DigitsValue(SubSeq(v, 1, Len(v) - 1)) +
           ((CHOOSE i \in 1..10 : Digits[i] = v[Len(v)]) - 1)

ParseU32(v) ==
    LET body == IF v # <<>> /\ v[1] = "+" THEN Tail(v) ELSE v
    IN  IF body # <<>> /\ \A i \in 1..Len(body) : IsDigit(body[i])
          THEN DigitsValue(body)
          ELSE None

\* lib.rs:1181-1185: headers().get(..).and_then(to_str).and_then(parse).
Remaining(resp) == IF resp.present THEN ParseU32(resp.value) ELSE None

\* Every 403 taken as the rate limit.
ListStatusKind_403IsRateLimit(resp) ==
    IF resp.status = 403 THEN "RateLimited"
    ELSE IF resp.status = 404 THEN "PathNotFound"
    ELSE IF ~(200 <= resp.status /\ resp.status <= 299) THEN "ApiError"
    ELSE "ok"

\* lib.rs:1179-1198
ListStatusKind(resp) ==
    IF resp.status = 403
      THEN IF Remaining(resp) = 0 THEN "RateLimited" ELSE "AccessDenied"
    ELSE IF resp.status = 404 THEN "PathNotFound"
    ELSE IF ~(200 <= resp.status /\ resp.status <= 299) THEN "ApiError"
    ELSE "ok"

\* The responses from which the lister returns failure k; a failure to
\* connect or to decode the body has no status to classify.
ResponsesFor(k) ==
    IF k \in {"NetworkError", "ParseError"}
      THEN {NoResponse}
      ELSE {resp \in HttpResponses : ListStatusKind(resp) = k}

ListFailKinds ==
    {"RateLimited", "AccessDenied", "PathNotFound", "ApiError",
     "NetworkError", "ParseError"}

\* The Err value list_github_contents_recursive returns for each failure of
\* the request for path p.
ListError(k, p) ==
    CASE k = "RateLimited" ->
           Err(k, <<"GitHub", "API", "rate", "limit", "exceeded",
                    "(60 requests/hour for unauthenticated).",
                    "Please", "try", "again", "later.">>)
      [] k = "AccessDenied" ->
           Err(k, <<"Access", "denied", ".", "This", "may", "be", "a",
                    "private", "repository.">>)
      [] k = "PathNotFound" ->
           Err(k, <<"Path", "'">> \o PathWords(p) \o
                  <<"'", "not", "found", "in", "repository">>)
      [] k = "ApiError" ->
           Err(k, <<"GitHub", "API", "error:", "500">>)
      [] k = "NetworkError" ->
           Err(k, <<"Failed", "to", "list", "contents:", "connect">>)
      [] k = "ParseError" ->
           Err(k, <<"Failed", "to", "parse", "response:", "decode">>)

ArchiveFailKinds ==
    {"NetworkError", "RepoOrBranchNotFound", "RateLimited", "ApiError"}

ArchiveError(k) ==
    CASE k = "NetworkError" -> Err(k, <<"Failed", "to", "download:", "connect">>)
      [] k = "RepoOrBranchNotFound" ->
           Err(k, <<"Repository", "or", "branch", "not", "found">>)
      [] k = "RateLimited" ->
           Err(k, <<"GitHub", "rate", "limit", "exceeded.", "Please", "try",
                    "again", "later.">>)
      [] k = "ApiError" -> Err(k, <<"GitHub", "API", "error:", "500">>)

\* ------------------------------------------------------------ progress
Event(s, p, t, d) ==
    [stage |-> s, percent |-> p, total_files |-> t, processed_files |-> d]

\* The fraction of the files done taken as the whole percentage.
FetchPercent_NoReserve(count, total) == (count * 100) \div total

\* lib.rs:1323-1328
FetchPercent(count, total) ==
    Min(10 + AsU32(F64Mul(F64Div(count, total), 85)), 95)

\* The estimate without its clamp to 50.
StreamPercent_NoClamp(bytes) == 15 + (bytes \div 1000000)

\* lib.rs:1433-1438
StreamPercent(bytes) ==
    Min(AsU32(F64Add(15, F64Min(F64Div(bytes, 1000000), 35))), 50)

\* The share of the entries rounded up.
ExtractPercent_RoundUp(count, matching) ==
    Min(60 + ((35 * count + Max(matching, 1) - 1) \div Max(matching, 1)), 95)

\* lib.rs:1593-1598
ExtractPercent(count, matching) ==
    Min(60 + AsU32(F64Mul(F64Div(count, Max(matching, 1)), 35)), 95)

\* ------------------------------------------------------------------ state
VARIABLES
    remote,                 \* the repository's tree at the requested branch
    url_info,               \* GitHubUrlInfo: repo, path
    options,                \* GitDownloadOptions
    pc,                     \* where the download_github_folder command is
    git_download_cancelled, \* AppState.git_download_cancelled
    events,                 \* the git-download-progress events emitted
    result,                 \* what the command returned
    files,                  \* Vec<FileToDownload> filled by the lister
    stack,                  \* lister: items left in each open directory
    listReq,                \* lister: path of the request awaited
    unit,                   \* fetcher: position of each file's future
    results,                \* fetcher: Result of each finished future
    downloaded_count,       \* fetcher: AtomicU32
    total_size,             \* fetcher: AtomicU64
    downloaded,             \* zipball: bytes streamed to the temp file
    chunks,                 \* zipball: chunks received
    archive,                \* zipball: entries of the opened archive
    idx,                    \* zipball: index of the extraction loop
    matching_files,         \* zipball: files counted by the first pass
    extracted_count,        \* zipball
    total_extracted_size,   \* zipball
    fs,                     \* files under the output path
    dirs,                   \* directories created under the output path
    tmp,                    \* the temp directory holding download.zip
    listReqs,               \* listing requests sent, in order
    archiveReqs,            \* zipball requests sent
    dlReqs,                 \* fetcher units whose download request was sent
    netDone,                \* some network call of the run has returned
    cancelEarly,            \* the flag was set in the run before netDone
    inflightAtCancel,       \* fetcher units in flight when the flag was set
    writtenAfterCancel,     \* fetcher units that wrote while the flag was set
    listFailed,             \* the Err the lister returned, if it did
    firstRun,               \* what an earlier run with the same input left
    otherRun,               \* a second command has started during the run
    listResp,               \* the HTTP response the lister's failure came from
    archiveResp             \* the HTTP response to the zipball request

input == <<remote, url_info, options>>
lister == <<files, stack, listReq>>
fetcher == <<unit, results, downloaded_count, total_size>>
zip == <<downloaded, chunks, archive, idx, matching_files, extracted_count,
         total_extracted_size>>
disk == <<fs, dirs, tmp>>
net == <<listReqs, archiveReqs, dlReqs, netDone>>
ghost == <<cancelEarly, inflightAtCancel, writtenAfterCancel, listFailed,
           firstRun, otherRun, listResp, archiveResp>>
vars == <<input, pc, git_download_cancelled, events, result, lister, fetcher,
          zip, disk, net, ghost>>

Res(st, e, n, sz, out) ==
    [status |-> st, err |-> e, files_count |-> n, total_size |-> sz,
     output_path |-> out]
NoResult == Res("none", NoErr, 0, 0, <<>>)
Failure(e) == Res("err", e, 0, 0, <<>>)
Success(n, sz, out) == Res("ok", NoErr, n, sz, out)

NoFirstRun ==
    [done |-> FALSE, fs |-> {}, output_path |-> <<>>, archive |-> FALSE]

InitWith(r, p, o) ==
    /\ remote = r
    /\ url_info = [repo |-> RepoName, path |-> p]
    /\ options = o
    /\ pc = "init"
    /\ git_download_cancelled \in BOOLEAN
    /\ events = <<>>
    /\ result = NoResult
    /\ files = <<>>
    /\ stack = <<>>
    /\ listReq = <<>>
    /\ unit = <<>>
    /\ results = <<>>
    /\ downloaded_count = 0
    /\ total_size = 0
    /\ downloaded = 0
    /\ chunks = 0
    /\ archive = <<>>
    /\ idx = 0
    /\ matching_files = 0
    /\ extracted_count = 0
    /\ total_extracted_size = 0
    /\ fs = {}
    /\ dirs = {}
    /\ tmp = "none"
    /\ listReqs = <<>>
    /\ archiveReqs = 0
    /\ dlReqs = {}
    /\ netDone = FALSE
    /\ cancelEarly = FALSE
    /\ inflightAtCancel = {}
    /\ writtenAfterCancel = {}
    /\ listFailed = NoErr
    /\ firstRun = NoFirstRun
    /\ otherRun = FALSE
    /\ listResp = NoResponse
    /\ archiveResp = NoResponse

Init ==
    \E r \in Repos, p \in SubPaths,
       o \in [flatten_structure : BOOLEAN, create_subfolder : BOOLEAN] :
        InitWith(r, p, o)

\* The complete event left out.
Emit_NoComplete(e) ==
    events' = IF e.stage = "complete" THEN events ELSE Append(events, e)

\* app.emit("git-download-progress", ..), lib.rs:1639 and after.
Emit(e) == events' = Append(events, e)

Return_KeepGoing(r) ==
    /\ result' = r
    /\ UNCHANGED <<pc, tmp>>

Return_Leak(r) ==
    /\ pc' = "done"
    /\ result' = r
    /\ UNCHANGED tmp

\* return from the command; the temp directory is dropped with its scope
Return(r) ==
    /\ pc' = "done"
    /\ result' = r
    /\ tmp' = IF tmp = "exists" THEN "removed" ELSE tmp

InFlight == {i \in DOMAIN unit : unit[i] = "inflight"}

\* --------------------------------------------------- cancel_git_download
cancel_git_download ==
    /\ git_download_cancelled' = TRUE
    /\ cancelEarly' =
         (cancelEarly \/ (pc \notin {"init", "done"} /\ ~netDone))
    /\ inflightAtCancel' =
         IF git_download_cancelled THEN inflightAtCancel ELSE InFlight
    /\ UNCHANGED <<input, pc, events, result, lister, fetcher, zip, disk, net,
                   writtenAfterCancel, listFailed, firstRun, otherRun,
                   listResp, archiveResp>>

\* ------------------------------------------------ download_github_folder
\* lib.rs:1633-1655: reset the flag, first event, HTTP client.
StartRun(clientOk) ==
    /\ pc = "init"
    /\ git_download_cancelled' = FALSE
    /\ Emit(Event("fetching", 0, None, None))
    /\ IF clientOk
         THEN /\ pc' = "started"
              /\ UNCHANGED result
         ELSE /\ pc' = "done"
              /\ result' = Failure(Err("ClientError",
                                <<"Failed", "to", "create", "HTTP", "client:">>))
    /\ inflightAtCancel' = {}
    /\ UNCHANGED <<input, lister, fetcher, zip, disk, net, cancelEarly,
                   writtenAfterCancel, listFailed, firstRun, otherRun,
                   listResp, archiveResp>>

ZipballBegin_ListingStage(evs) ==
    /\ events' = Append(evs, Event("listing", 10, None, None))
    /\ archiveReqs' = archiveReqs + 1
    /\ pc' = "archive_req"

\* lib.rs:1368-1389: the first event of download_via_zipball and its request.
ZipballBegin(evs) ==
    /\ events' = Append(evs, Event("downloading", 10, None, None))
    /\ archiveReqs' = archiveReqs + 1
    /\ pc' = "archive_req"

\* The Contents API tried for every request.
UseContentsApi_Always(path) == TRUE

\* lib.rs:1659: which strategy the command starts with.
UseContentsApi(path) == path # <<>>

\* lib.rs:1659-1682 and 1765-1768
SelectStrategy ==
    /\ pc = "started"
    /\ IF UseContentsApi(url_info.path)
         THEN /\ Emit(Event("listing", 5, None, None))
              /\ listReq' = url_info.path
              /\ listReqs' = Append(listReqs, url_info.path)
              /\ pc' = "listing"
              /\ UNCHANGED archiveReqs
         ELSE /\ ZipballBegin(events)
              /\ UNCHANGED <<listReq, listReqs>>
    /\ UNCHANGED <<input, git_download_cancelled, result, files, stack,
                   fetcher, zip, disk, dlReqs, netDone, ghost>>

\* ---------------------------------------- list_github_contents_recursive
FileToDownload(item) ==
    [download_url |-> item.path, relative_path |-> item.path,
     size |-> item.size]

\* Every item of type file taken, with or without download URL.
IsDownloadable_AnyFile(item) == item.kind = "file"

\* lib.rs:1206-1214: a "file" item whose download_url is Some.
IsDownloadable(item) == item.kind = "file" /\ item.url

\* lib.rs:1205-1227, for the whole recursion: consume the items of the open
\* directories, innermost first, up to the next "dir" item (whose listing
\* request is then awaited) or to the return of the outermost call.
RECURSIVE Walk(_, _)
Walk(stk, fl) ==
    IF stk = <<>>
      THEN [files |-> fl, stack |-> <<>>, done |-> TRUE, req |-> <<>>]
    ELSE LET items == Head(stk)
             isDir == {k \in 1..Len(items) : items[k].kind = "dir"}
             n == IF isDir = {} THEN Len(items) + 1
                  ELSE CHOOSE k \in isDir : \A j \in isDir : k <= j
             taken == SelectSeq(SubSeq(items, 1, n - 1),
                                LAMBDA item : IsDownloadable(item))
             fl2 == fl \o [k \in 1..Len(taken) |-> FileToDownload(taken[k])]
         IN  IF n > Len(items)
               THEN Walk(Tail(stk), fl2)
               ELSE [files |-> fl2,
                     stack |-> <<SubSeq(items, n + 1, Len(items))>> \o
                               Tail(stk),
                     done |-> FALSE, req |-> items[n].path]

FolderFinalOutput_RepoName(info, opts) ==
    IF opts.create_subfolder
      THEN BaseOutput \o <<info.repo>>
      ELSE BaseOutput

\* lib.rs:1706-1716
FolderFinalOutput(info, opts) ==
    IF opts.create_subfolder
      THEN BaseOutput \o <<LastSeg(info.path)>>
      ELSE BaseOutput

\* The failure handed to the fallback like a failure of the listing.
OutputDirFails_FallsBack(evs) ==
    /\ ZipballBegin(evs)
    /\ UNCHANGED result

\* lib.rs:1718-1720: the `?` on create_dir_all, in the Ok arm of the match
\* on the lister's result, returns from the command.
OutputDirFails(evs) ==
    /\ events' = evs
    /\ pc' = "done"
    /\ result' = Failure(Err("OutputDirError",
                             <<"Failed", "to", "create", "output",
                               "directory:">>))
    /\ UNCHANGED archiveReqs

\* The list never taken for empty.
ListEmpty_Never(fl) == FALSE

\* lib.rs:1685: files.is_empty()
ListEmpty(fl) == fl = <<>>

PathEmptyErr(p) ==
    Err("PathEmpty", <<"Folder", "'">> \o PathWords(p) \o
                     <<"'", "is", "empty", "or", "not", "found">>)

\* lib.rs:1200-1227 for a 2xx response, then, when the outermost call has
\* returned Ok, lib.rs:1684-1731 up to the first poll of the fetcher.
ListResponseOk(dirOk) ==
    /\ pc = "listing"
    /\ IsDir(remote, listReq)
    /\ netDone' = TRUE
    /\ LET w == Walk(<<Contents(remote, listReq)>> \o stack, files)
       IN  /\ files' = w.files
           /\ stack' = w.stack
           /\ IF ~w.done
                THEN /\ dirOk
                     /\ listReq' = w.req
                     /\ listReqs' = Append(listReqs, w.req)
                     /\ UNCHANGED <<pc, events, result, fetcher, disk,
                                    archiveReqs>>
              ELSE IF ListEmpty(w.files)
                THEN /\ dirOk
                     /\ Return(Failure(PathEmptyErr(url_info.path)))
                     /\ UNCHANGED <<listReq, listReqs, events, fetcher, fs,
                                    dirs, archiveReqs>>
              ELSE /\ UNCHANGED <<listReq, listReqs, fs, tmp>>
                   /\ IF dirOk
                        THEN /\ Emit(Event("downloading", 10, Len(w.files),
                                           0))
                             /\ dirs' = dirs \cup
                                    {FolderFinalOutput(url_info, options)}
                             /\ pc' = "fetch"
                             /\ unit' = [i \in 1..Len(w.files) |-> "queued"]
                             /\ results' = [i \in 1..Len(w.files) |-> "none"]
                             /\ downloaded_count' = 0
                             /\ total_size' = 0
                             /\ UNCHANGED <<result, archiveReqs>>
                        ELSE /\ OutputDirFails(
                                  Append(events, Event("downloading", 10,
                                                       Len(w.files), 0)))
                             /\ UNCHANGED <<fetcher, dirs>>
    /\ UNCHANGED <<input, git_download_cancelled, zip, dlReqs, ghost>>

\* Only the rate limit is recognised.
NoFallback_RateLimitOnly(e) == Contains(e.msg, <<"rate", "limit">>)

\* lib.rs:1757: the errors of the listing that are returned as they are.
\* (The fallback arm is the Err arm of the match on the lister's result,
\* lib.rs:1752; the errors of the Ok arm leave the function.)
NoFallback(e) ==
    \/ Contains(e.msg, <<"rate", "limit">>)
    \/ Contains(e.msg, <<"Access", "denied">>)

\* The files listed before the failure are downloaded.
ErrArm_DownloadsPartial(e) ==
    IF files # <<>>
      THEN /\ Emit(Event("downloading", 10, Len(files), 0))
           /\ dirs' = dirs \cup {FolderFinalOutput(url_info, options)}
           /\ pc' = "fetch"
           /\ unit' = [i \in 1..Len(files) |-> "queued"]
           /\ results' = [i \in 1..Len(files) |-> "none"]
           /\ downloaded_count' = 0
           /\ total_size' = 0
           /\ UNCHANGED <<result, tmp, archiveReqs>>
    ELSE IF NoFallback(e)
      THEN /\ Return(Failure(e))
           /\ UNCHANGED <<events, archiveReqs, fetcher, dirs>>
    ELSE /\ ZipballBegin(events)
         /\ UNCHANGED <<result, tmp, fetcher, dirs>>

\* lib.rs:1752-1763: the Err arm of the match on the lister's result; the
\* files pushed before the failure are not looked at.
ErrArm(e) ==
    /\ IF NoFallback(e)
         THEN /\ Return(Failure(e))
              /\ UNCHANGED <<events, archiveReqs>>
         ELSE /\ ZipballBegin(events)
              /\ UNCHANGED <<result, tmp>>
    /\ UNCHANGED <<fetcher, dirs>>

\* lib.rs:1172-1203 for a failed request, propagated by `?` through every
\* open call, then lib.rs:1752-1763.  k is the failure the lister returns:
\* one of its own, or the one an HTTP response is classified as.
ListResponseFail(k) ==
    /\ pc = "listing"
    /\ netDone' = TRUE
    /\ \E resp \in ResponsesFor(k) : listResp' = resp
    /\ LET e == ListError(k, listReq)
       IN  /\ listFailed' = e
           /\ ErrArm(e)
    /\ UNCHANGED <<input, git_download_cancelled, lister, zip, fs,
                   listReqs, dlReqs, cancelEarly, inflightAtCancel,
                   writtenAfterCancel, firstRun, otherRun, archiveResp>>

\* ------------------------------------------------ download_files_parallel
\* lib.rs:1269-1277
RelativePath(file, base_path) ==
    IF base_path = <<>> THEN file.relative_path
    ELSE IF IsPrefix(base_path, file.relative_path)
      THEN DropPrefix(base_path, file.relative_path)
      ELSE file.relative_path

\* The relative path kept whole.
OutputFilePath_KeepDirs(output_dir, relative_path, flatten) ==
    output_dir \o relative_path

\* lib.rs:1279-1284 and 1573-1578
OutputFilePath(output_dir, relative_path, flatten) ==
    IF flatten
      THEN output_dir \o <<LastSeg(relative_path)>>
      ELSE output_dir \o relative_path

UnitOutput(i) ==
    OutputFilePath(FolderFinalOutput(url_info, options),
                   RelativePath(files[i], url_info.path),
                   options.flatten_structure)

WriteFile(disk_files, p, src, sz) ==
    {f \in disk_files : f.path # p} \cup
        {[path |-> p, src |-> src, size |-> sz]}

\* The unit starts without looking at the flag.
UnitSeesCancel_Never == FALSE

\* lib.rs:1261-1267: the unit's check of the flag at its first poll.
UnitSeesCancel == git_download_cancelled

\* Every future is started at once.
BufferHasRoom_Unbounded == TRUE

\* lib.rs:1338: buffer_unordered pulls the next file while fewer than
\* `concurrency` futures are in its buffer.
BufferHasRoom == Cardinality(InFlight) < concurrency

\* lib.rs:1250-1297: the next file's future is created and polled for the
\* first time: flag check, output path, create_dir_all, request sent.
UnitStart(i, dirOk) ==
    /\ pc = "fetch"
    /\ unit[i] = "queued"
    /\ \A j \in 1..(i - 1) : unit[j] # "queued"
    /\ BufferHasRoom
    /\ IF UnitSeesCancel
         THEN /\ dirOk
              /\ unit' = [unit EXCEPT ![i] = "done"]
              /\ results' = [results EXCEPT ![i] = "Cancelled"]
              /\ UNCHANGED <<dirs, dlReqs>>
         ELSE IF dirOk
           THEN /\ dirs' = dirs \cup {Parent(UnitOutput(i))}
                /\ dlReqs' = dlReqs \cup {i}
                /\ unit' = [unit EXCEPT ![i] = "inflight"]
                /\ UNCHANGED results
           ELSE /\ unit' = [unit EXCEPT ![i] = "done"]
                /\ results' = [results EXCEPT ![i] = "MkdirError"]
                /\ UNCHANGED <<dirs, dlReqs>>
    /\ UNCHANGED <<input, pc, git_download_cancelled, events, result, lister,
                   downloaded_count, total_size, zip, fs, tmp, listReqs,
                   archiveReqs, netDone, ghost>>

UnitFailKinds == {"NetworkError", "HttpError", "ReadError", "WriteError"}

\* The counter set to the amount instead of raised by it.
fetch_add_Store(counter, n) == n

\* lib.rs:1319-1320: AtomicU32/AtomicU64::fetch_add, the value after it.
fetch_add(counter, n) == counter + n

\* lib.rs:1293-1335: the request of unit i resolves, through the body; a
\* failure returns Err, a success writes the file, adds to the two counters
\* and emits the progress event.
UnitResponse(i, o) ==
    /\ pc = "fetch"
    /\ unit[i] = "inflight"
    /\ netDone' = TRUE
    /\ unit' = [unit EXCEPT ![i] = "done"]
    /\ results' = [results EXCEPT ![i] = o]
    /\ IF o = "ok"
         THEN LET count == fetch_add(downloaded_count, 1)
              IN  /\ fs' = WriteFile(fs, UnitOutput(i),
                                     files[i].relative_path, files[i].size)
                  /\ downloaded_count' = count
                  /\ total_size' = fetch_add(total_size, files[i].size)
                  /\ Emit(Event("downloading",
                                FetchPercent(count, Len(files)),
                                Len(files), count))
                  /\ writtenAfterCancel' =
                       IF git_download_cancelled
                         THEN writtenAfterCancel \cup {i}
                         ELSE writtenAfterCancel
         ELSE UNCHANGED <<fs, downloaded_count, total_size, events,
                          writtenAfterCancel>>
    /\ UNCHANGED <<input, pc, git_download_cancelled, result, lister, zip,
                   dirs, tmp, listReqs, archiveReqs, dlReqs, cancelEarly,
                   inflightAtCancel, listFailed, firstRun, otherRun,
                   listResp, archiveResp>>

\* Any Err of a unit fails the batch.
BatchCancelled_AnyError(rs) == \E i \in DOMAIN rs : rs[i] \notin {"ok", "none"}

\* A Cancelled unit is logged like any other failure.
BatchCancelled_Never(rs) == FALSE

\* lib.rs:1342-1351: the batch fails iff some unit returned the Cancelled
\* error.
BatchCancelled(rs) == \E i \in DOMAIN rs : rs[i] = "Cancelled"

\* The stream of results never reports its end.
StreamExhausted_Never == FALSE

\* lib.rs:1338-1340: collect() returns when buffer_unordered has yielded
\* the result of every future.
StreamExhausted == \A i \in DOMAIN unit : unit[i] = "done"

\* lib.rs:1340-1357 and 1731-1750: every future has finished; the batch
\* returns and the command ends.
FetchFinish ==
    /\ pc = "fetch"
    /\ StreamExhausted
    /\ IF BatchCancelled(results)
         THEN /\ Return(Failure(CancelledErr))
              /\ UNCHANGED events
         ELSE /\ Emit(Event("complete", 100, downloaded_count,
                            downloaded_count))
              /\ Return(Success(downloaded_count, total_size,
                                FolderFinalOutput(url_info, options)))
    /\ UNCHANGED <<input, git_download_cancelled, lister, fetcher, zip, fs,
                   dirs, net, ghost>>

\* --------------------------------------------------- download_via_zipball
\* Every 403 taken as a generic error.
ArchiveStatusKind_403IsApiError(resp) ==
    IF 200 <= resp.status /\ resp.status <= 299 THEN "ok"
    ELSE IF resp.status = 404 THEN "RepoOrBranchNotFound"
    ELSE "ApiError"

\* lib.rs:1391-1399
ArchiveStatusKind(resp) ==
    IF 200 <= resp.status /\ resp.status <= 299 THEN "ok"
    ELSE IF resp.status = 404 THEN "RepoOrBranchNotFound"
    ELSE IF resp.status = 403 THEN "RateLimited"
    ELSE "ApiError"

\* The responses with which the zipball request has outcome o: a failure of
\* the request itself has none; the temp directory and file are created
\* after a 2xx status.
ArchiveResponsesFor(o) ==
    IF o = "NetworkError" THEN {NoResponse}
    ELSE {resp \in HttpResponses :
             /\ ~resp.present
             /\ ArchiveStatusKind(resp) =
                    IF o \in ArchiveFailKinds THEN o ELSE "ok"}

ArchiveOutcomes == ArchiveFailKinds \cup {"TempDirError", "TempFileError", "ok"}

\* lib.rs:1385-1415: the zipball request resolves; on a 2xx status the temp
\* directory and download.zip are created.
ArchiveResponse(o) ==
    /\ pc = "archive_req"
    /\ netDone' = TRUE
    /\ \E resp \in ArchiveResponsesFor(o) : archiveResp' = resp
    /\ CASE o \in ArchiveFailKinds ->
              /\ Return(Failure(ArchiveError(o)))
              /\ UNCHANGED <<downloaded, chunks>>
         [] o = "TempDirError" ->
              /\ Return(Failure(Err(o, <<"Failed", "to", "create", "temp",
                                         "directory:">>)))
              /\ UNCHANGED <<downloaded, chunks>>
         [] o = "TempFileError" ->
              /\ pc' = "done"
              /\ result' = Failure(Err(o, <<"Failed", "to", "create", "temp",
                                            "file:">>))
              /\ tmp' = "removed"
              /\ UNCHANGED <<downloaded, chunks>>
         [] o = "ok" ->
              /\ pc' = "streaming"
              /\ tmp' = "exists"
              /\ downloaded' = 0
              /\ chunks' = 0
              /\ UNCHANGED result
    /\ UNCHANGED <<input, git_download_cancelled, events, lister, fetcher,
                   archive, idx, matching_files, extracted_count,
                   total_extracted_size, fs, dirs, listReqs, archiveReqs,
                   dlReqs, cancelEarly, inflightAtCancel, writtenAfterCancel,
                   listFailed, firstRun, otherRun, listResp>>

\* Sizes a chunk of the body may have, in bytes.
ChunkSizes == {700000, 30000000}

\* The flag read before the first chunk only.
ChunkSeesCancel_FirstOnly == git_download_cancelled /\ chunks = 0

\* lib.rs:1418-1424: the flag is read when a chunk has arrived, before the
\* chunk is looked at.
ChunkSeesCancel == git_download_cancelled

\* lib.rs:1417-1446: one turn of the streaming loop; tick says whether more
\* than 500 ms have passed since the last progress event.
StreamChunk(sz, tick, o) ==
    /\ pc = "streaming"
    /\ chunks < MaxChunks
    /\ IF ChunkSeesCancel
         THEN /\ Return(Failure(CancelledErr))
              /\ UNCHANGED <<events, downloaded, chunks>>
         ELSE CASE o = "ChunkError" ->
                     /\ Return(Failure(Err(o, <<"Download", "error:">>)))
                     /\ UNCHANGED <<events, downloaded, chunks>>
                [] o = "WriteError" ->
                     /\ Return(Failure(Err(o, <<"Write", "error:">>)))
                     /\ UNCHANGED <<events, downloaded, chunks>>
                [] o = "ok" ->
                     /\ downloaded' = downloaded + sz
                     /\ chunks' = chunks + 1
                     /\ IF tick
                          THEN Emit(Event("downloading",
                                          StreamPercent(downloaded + sz),
                                          None, None))
                          ELSE UNCHANGED events
                     /\ UNCHANGED <<pc, result, tmp>>
    /\ UNCHANGED <<input, git_download_cancelled, lister, fetcher, archive,
                   idx, matching_files, extracted_count, total_extracted_size,
                   fs, dirs, net, ghost>>

\* lib.rs:1488-1493
FilterPrefix(root_prefix, path) ==
    IF path = <<>> THEN root_prefix ELSE root_prefix \o path

\* lib.rs:1519 and 1559: entry.name(), the text of the entry's path, which
\* ends with '/' for a directory.
EntryName(e) ==
    PathWords(e.path) \o (IF e.kind = "dir" THEN <<"/">> ELSE <<>>)

\* lib.rs:1481-1493: the text of the filter prefix, "root/" or
\* "root/path/".
FilterText(filter_prefix) == PathWords(filter_prefix) \o <<"/">>

\* The prefix compared without its closing '/'.
StartsWithFilter_NoSlash(e, filter_prefix) ==
    IsPrefix(PathWords(filter_prefix), EntryName(e))

\* lib.rs:1522 and 1561: entry_name.starts_with(&filter_prefix)
StartsWithFilter(e, filter_prefix) ==
    IsPrefix(FilterText(filter_prefix), EntryName(e))

\* lib.rs:1522 and 1566: entry.is_dir()
IsDirEntry(e) == e.kind = "dir"

\* The folders under the prefix counted with the files.
CountMatching_CountsDirs(a, filter_prefix) ==
    Cardinality({i \in 1..Len(a) : StartsWithFilter(a[i], filter_prefix)})

CountMatching_AnyEntry(a, filter_prefix) ==
    Cardinality({i \in 1..Len(a) : ~IsDirEntry(a[i])})

\* lib.rs:1517-1525
CountMatching(a, filter_prefix) ==
    Cardinality({i \in 1..Len(a) :
                    StartsWithFilter(a[i], filter_prefix) /\ ~IsDirEntry(a[i])})

\* lib.rs:1495-1511
ZipFinalOutput(info, opts) ==
    IF opts.create_subfolder
      THEN BaseOutput \o
             <<IF info.path = <<>> THEN info.repo ELSE LastSeg(info.path)>>
      ELSE BaseOutput

\* The count tested whatever the subpath.
FolderMissing_AnyPath(matching, path) == matching = 0

\* lib.rs:1527: matching_files == 0 && !url_info.path.is_empty()
FolderMissing(matching, path) == matching = 0 /\ path # <<>>

OpenOutcomes ==
    {"OpenError", "ZipError", "RootEntryError", "OutputDirError",
     "CountEntryError", "ok"}

\* lib.rs:1448-1543: the body has ended; the archive a is opened, its root
\* prefix read, the output directory created and the matching files counted.
StreamEnd(o, a) ==
    /\ pc = "streaming"
    /\ downloaded = 0 => o \in {"OpenError", "ZipError"}
    /\ a = <<>> => o \in {"OpenError", "ZipError", "ok"}
    /\ events' = events \o << Event("downloading", 50, None, None),
                              Event("extracting", 55, None, None) >> \o
                 ( IF o = "ok" /\ a # <<>>
                      /\ ~FolderMissing(
                             CountMatching(a, FilterPrefix(<<a[1].path[1]>>,
                                                           url_info.path)),
                             url_info.path)
                     THEN << Event("extracting", 60,
                                   CountMatching(a,
                                       FilterPrefix(<<a[1].path[1]>>,
                                                    url_info.path)), 0) >>
                     ELSE <<>> )
    /\ dirs' = IF a # <<>> /\ o \in {"CountEntryError", "ok"}
                 THEN dirs \cup {ZipFinalOutput(url_info, options)}
                 ELSE dirs
    /\ IF o = "ok"
         THEN IF a = <<>>
                THEN /\ Return(Failure(Err("EmptyArchive",
                                           <<"Empty", "archive">>)))
                     /\ UNCHANGED <<archive, idx, matching_files,
                                    extracted_count, total_extracted_size>>
              ELSE LET filter_prefix ==
                           FilterPrefix(<<a[1].path[1]>>, url_info.path)
                       matching == CountMatching(a, filter_prefix)
                   IN  IF FolderMissing(matching, url_info.path)
                         THEN /\ Return(Failure(Err("FolderNotFound",
                                   <<"Folder", "'">> \o
                                   PathWords(url_info.path) \o
                                   <<"'", "not", "found", "in",
                                     "repository">>)))
                              /\ archive' = a
                              /\ UNCHANGED <<idx, matching_files,
                                             extracted_count,
                                             total_extracted_size>>
                         ELSE /\ pc' = "extract"
                              /\ archive' = a
                              /\ idx' = 0
                              /\ matching_files' = matching
                              /\ extracted_count' = 0
                              /\ total_extracted_size' = 0
                              /\ UNCHANGED <<result, tmp>>
         ELSE /\ Return(Failure(Err(o, <<"Failed", "to", "read", "ZIP:">>)))
              /\ UNCHANGED <<archive, idx, matching_files, extracted_count,
                             total_extracted_size>>
    /\ UNCHANGED <<input, git_download_cancelled, lister, fetcher, downloaded,
                   chunks, fs, net, ghost>>

\* The flag read before the first entry only.
EntrySeesCancel_FirstOnly == git_download_cancelled /\ idx = 0

\* lib.rs:1550-1556: the flag is read at the top of every turn of the loop.
EntrySeesCancel == git_download_cancelled

ExtractOutcomes ==
    {"EntryError", "MkdirError", "CreateError", "CopyError", "ok"}

\* lib.rs:1549-1604: one turn of the extraction loop, for entry idx.
ExtractEntry(o) ==
    /\ pc = "extract"
    /\ idx < Len(archive)
    /\ LET entry == archive[idx + 1]
           filter_prefix == FilterPrefix(<<archive[1].path[1]>>, url_info.path)
           relative_path == DropPrefix(filter_prefix, entry.path)
           output_file_path ==
               OutputFilePath(ZipFinalOutput(url_info, options), relative_path,
                              options.flatten_structure)
       IN  IF EntrySeesCancel
             THEN /\ Return(Failure(CancelledErr))
                  /\ UNCHANGED <<events, idx, extracted_count,
                                 total_extracted_size, fs, dirs>>
           ELSE IF o = "EntryError"
             THEN /\ Return(Failure(Err(o, <<"invalid", "Zip", "archive">>)))
                  /\ UNCHANGED <<events, idx, extracted_count,
                                 total_extracted_size, fs, dirs>>
           ELSE IF ~StartsWithFilter(entry, filter_prefix) \/ IsDirEntry(entry)
             THEN /\ o = "ok"
                  /\ idx' = idx + 1
                  /\ UNCHANGED <<pc, result, events, extracted_count,
                                 total_extracted_size, disk>>
           ELSE IF o = "MkdirError"
             THEN /\ Return(Failure(Err(o, <<"Failed", "to", "create",
                                             "directory:">>)))
                  /\ UNCHANGED <<events, idx, extracted_count,
                                 total_extracted_size, fs, dirs>>
           ELSE IF o = "CreateError"
             THEN /\ Return(Failure(Err(o, <<"Failed", "to", "create",
                                             "file:">>)))
                  /\ dirs' = dirs \cup {Parent(output_file_path)}
                  /\ UNCHANGED <<events, idx, extracted_count,
                                 total_extracted_size, fs>>
           ELSE IF o = "CopyError"
             THEN /\ Return(Failure(Err(o, <<"Failed", "to", "write",
                                             "file:">>)))
                  /\ dirs' = dirs \cup {Parent(output_file_path)}
                  /\ fs' = WriteFile(fs, output_file_path,
                                     DropPrefix(<<archive[1].path[1]>>,
                                                entry.path), None)
                  /\ UNCHANGED <<events, idx, extracted_count,
                                 total_extracted_size>>
           ELSE /\ dirs' = dirs \cup {Parent(output_file_path)}
                /\ fs' = WriteFile(fs, output_file_path,
                                   DropPrefix(<<archive[1].path[1]>>,
                                              entry.path), entry.size)
                /\ total_extracted_size' = total_extracted_size + entry.size
                /\ extracted_count' = extracted_count + 1
                /\ idx' = idx + 1
                /\ Emit(Event("extracting",
                              ExtractPercent(extracted_count + 1,
                                             matching_files),
                              matching_files, extracted_count + 1))
                /\ UNCHANGED <<pc, result, tmp>>
    /\ UNCHANGED <<input, git_download_cancelled, lister, fetcher, downloaded,
                   chunks, archive, matching_files, net, ghost>>

\* lib.rs:1606-1623
ExtractFinish ==
    /\ pc = "extract"
    /\ idx = Len(archive)
    /\ Emit(Event("complete", 100, matching_files, extracted_count))
    /\ Return(Success(extracted_count, total_extracted_size,
                      ZipFinalOutput(url_info, options)))
    /\ UNCHANGED <<input, git_download_cancelled, lister, fetcher, zip, fs,
                   dirs, net, ghost>>

\* ------------------------------------------------------------ specification
Next ==
    \/ cancel_git_download
    \/ \E ok \in BOOLEAN : StartRun(ok)
    \/ SelectStrategy
    \/ \E ok \in BOOLEAN : ListResponseOk(ok)
    \/ \E k \in ListFailKinds : ListResponseFail(k)
    \/ \E i \in DOMAIN unit, ok \in BOOLEAN : UnitStart(i, ok)
    \/ \E i \in DOMAIN unit, o \in UnitFailKinds \cup {"ok"} : UnitResponse(i, o)
    \/ FetchFinish
    \/ \E o \in ArchiveOutcomes : ArchiveResponse(o)
    \/ \E sz \in ChunkSizes, tick \in BOOLEAN,
          o \in {"ChunkError", "WriteError", "ok"} : StreamChunk(sz, tick, o)
    \/ \E o \in OpenOutcomes, a \in {Zipball(remote), <<>>} : StreamEnd(o, a)
    \/ \E o \in ExtractOutcomes : ExtractEntry(o)
    \/ ExtractFinish

Spec == Init /\ [][Next]_vars

\* A step of the run: every action but the caller's cancel command.
RunStep ==
    \/ \E ok \in BOOLEAN : StartRun(ok)
    \/ SelectStrategy
    \/ \E ok \in BOOLEAN : ListResponseOk(ok)
    \/ \E k \in ListFailKinds : ListResponseFail(k)
    \/ \E i \in DOMAIN unit, ok \in BOOLEAN : UnitStart(i, ok)
    \/ \E i \in DOMAIN unit, o \in UnitFailKinds \cup {"ok"} : UnitResponse(i, o)
    \/ FetchFinish
    \/ \E o \in ArchiveOutcomes : ArchiveResponse(o)
    \/ \E sz \in ChunkSizes, tick \in BOOLEAN,
          o \in {"ChunkError", "WriteError", "ok"} : StreamChunk(sz, tick, o)
    \/ \E o \in OpenOutcomes, a \in {Zipball(remote), <<>>} : StreamEnd(o, a)
    \/ \E o \in ExtractOutcomes : ExtractEntry(o)
    \/ ExtractFinish

\* Every run, the executor polling the command's task whenever it can make
\* a step: every request returns, every ready future is polled.
SpecLive == Init /\ [][Next]_vars /\ WF_vars(RunStep)

\* The listing strategy on the large flat folder, with a network and a disk
\* that do not fail: the runs in which more files are listed than the
\* fetcher's buffer holds.
InitBig ==
    InitWith(RepoBig, <<"docs">>,
             [flatten_structure |-> FALSE, create_subfolder |-> TRUE])

NextBig ==
    \/ cancel_git_download
    \/ StartRun(TRUE)
    \/ SelectStrategy
    \/ ListResponseOk(TRUE)
    \/ \E i \in DOMAIN unit : UnitStart(i, TRUE)
    \/ \E i \in DOMAIN unit : UnitResponse(i, "ok")
    \/ FetchFinish

SpecBig == InitBig /\ [][NextBig]_vars

\* The folder of ManyFiles files, taken by the listing strategy or, as the
\* whole repository, by the archive strategy, with a network and a disk that
\* do not fail, no cancellation, and the file responses arriving in the
\* order of the requests.
InitMany ==
    \E p \in {<<"docs">>, <<>>} :
        InitWith(RepoMany, p,
                 [flatten_structure |-> FALSE, create_subfolder |-> TRUE])

Oldest(i) == \A j \in 1..(i - 1) : unit[j] = "done"

NextMany ==
    \/ StartRun(TRUE)
    \/ SelectStrategy
    \/ ListResponseOk(TRUE)
    \/ \E i \in DOMAIN unit : UnitStart(i, TRUE)
    \/ \E i \in DOMAIN unit : Oldest(i) /\ UnitResponse(i, "ok")
    \/ FetchFinish
    \/ ArchiveResponse("ok")
    \/ \E sz \in ChunkSizes, tick \in BOOLEAN : StreamChunk(sz, tick, "ok")
    \/ StreamEnd("ok", Zipball(remote))
    \/ ExtractEntry("ok")
    \/ ExtractFinish

SpecMany == InitMany /\ [][NextMany]_vars

\* The deep tree requested by subpath: the listing requests and the
\* creation of the output directory may fail, the downloads may fail with an
\* HTTP error, and the archive strategy, when fallen back to, meets no
\* failure.
InitTree ==
    \E o \in [flatten_structure : BOOLEAN, create_subfolder : BOOLEAN] :
      \E p \in {<<"docs">>, <<"vendor">>} : InitWith(RepoTree, p, o)

NextTree ==
    \/ cancel_git_download
    \/ StartRun(TRUE)
    \/ SelectStrategy
    \/ \E ok \in BOOLEAN : ListResponseOk(ok)
    \/ \E k \in ListFailKinds : ListResponseFail(k)
    \/ \E i \in DOMAIN unit : UnitStart(i, TRUE)
    \/ \E i \in DOMAIN unit, o \in {"HttpError", "ok"} : UnitResponse(i, o)
    \/ FetchFinish
    \/ ArchiveResponse("ok")
    \/ StreamChunk(700000, TRUE, "ok")
    \/ StreamEnd("ok", Zipball(remote))
    \/ ExtractEntry("ok")
    \/ ExtractFinish

SpecTree == InitTree /\ [][NextTree]_vars

\* ------------------------------------------------------------ properties
HasComplete == \E i \in 1..Len(events) : events[i].stage = "complete"

LastEvent == events[Len(events)]

OkUnits == {i \in DOMAIN results : results[i] = "ok"}

RECURSIVE SumSizes(_)
SumSizes(S) ==
    IF S = {} THEN 0
    ELSE LET i == CHOOSE x \in S : TRUE
         IN  files[i].size + SumSizes(S \ {i})

BatchEnded == pc = "done" /\ unit # <<>>

\* C1: in a run whose subpath is empty no listing request and no per-file
\* download request is ever sent, and the one request of the run is the
\* zipball request.
C1_EmptySubpathArchiveOnly ==
    url_info.path = <<>> =>
        /\ listReqs = <<>>
        /\ dlReqs = {}
        /\ pc \notin {"listing", "fetch"}
        /\ pc \in {"archive_req", "streaming", "extract"} => archiveReqs = 1
        /\ result.status = "ok" => archiveReqs = 1

C1_Witness ==
    /\ url_info.path = <<>>
    /\ result.status = "ok"
    /\ archiveReqs = 1
    /\ fs # {}

C3_OtherFailureFallsBack ==
    listFailed.kind \in ListFailKinds \ {"RateLimited", "AccessDenied"} =>
        /\ archiveReqs = 1
        /\ pc \in {"archive_req", "streaming", "extract", "done"}

\* C4: the percent values of the events of a run never decrease.
C4_PercentMonotone ==
    \A i \in 1..(Len(events) - 1) : events[i].percent <= events[i + 1].percent

C4_Witness ==
    /\ result.status = "ok"
    /\ downloaded_count = 3
    /\ Len(listReqs) = 2

\* C5: a run that returned a result emitted exactly one event of percent
\* 100: its last one, of stage complete; every earlier one is at most 95.
C5_CompleteOnceAtEnd ==
    result.status = "ok" =>
        /\ events # <<>>
        /\ LastEvent.percent = 100
        /\ LastEvent.stage = "complete"
        /\ \A i \in 1..(Len(events) - 1) : events[i].percent <= 95

C5_Witness ==
    /\ result.status = "ok"
    /\ Cardinality(OkUnits) = 3

\* C6: a flag set after the start of the run and before any network call
\* of the run returned ends the run with Cancelled and no file written.
C6_EarlyCancelEndsCancelled ==
    (pc = "done" /\ cancelEarly) =>
        /\ result = Failure(CancelledErr)
        /\ fs = {}

\* C7: once the flag is set, no unit still queued sends its request or
\* writes a file; the units that write after that were in flight when the
\* flag was set, and they are at most `concurrency`.
C7_NoNewUnitAfterCancel ==
    /\ [](/\ writtenAfterCancel \subseteq inflightAtCancel
          /\ Cardinality(inflightAtCancel) <= concurrency)
    /\ [][(git_download_cancelled /\ pc = "fetch") =>
             \A i \in DOMAIN unit :
                 unit[i] = "queued" =>
                     /\ unit'[i] # "inflight"
                     /\ i \notin dlReqs'
                     /\ results'[i] \in {"none", "Cancelled"}]_vars

C7_Witness ==
    /\ Cardinality(inflightAtCancel) = concurrency
    /\ writtenAfterCancel # {}
    /\ \E i \in DOMAIN results : results[i] = "Cancelled"
    /\ pc = "done"

\* C8: a batch in which no unit saw the flag set returns success whatever
\* failed: every file was attempted, count and bytes are those of the files
\* written, and the run ends with the complete event.
C8_FileFailureNotFatal ==
    (BatchEnded /\ ~(\E i \in DOMAIN results : results[i] = "Cancelled")) =>
        /\ \A i \in DOMAIN results :
               i \in dlReqs \/ results[i] = "MkdirError"
        /\ result = Success(Cardinality(OkUnits), SumSizes(OkUnits),
                            FolderFinalOutput(url_info, options))
        /\ LastEvent.stage = "complete"

C8_Witness ==
    /\ BatchEnded
    /\ result.status = "ok"
    /\ \E i, j, k \in DOMAIN results :
          /\ results[i] = "HttpError"
          /\ results[j] = "MkdirError"
          /\ results[k] = "ok"

\* C9: as soon as one unit has seen the flag set, the run emits no complete
\* event and returns no result; it ends with Cancelled.
C9_CancelFailsBatch ==
    (\E i \in DOMAIN results : results[i] = "Cancelled") =>
        /\ ~HasComplete
        /\ result.status # "ok"
        /\ pc = "done" => result = Failure(CancelledErr)

C9_Witness ==
    /\ pc = "done"
    /\ \E i, j, k \in DOMAIN results :
          /\ results[i] = "ok"
          /\ results[j] = "WriteError"
          /\ results[k] = "Cancelled"

\* C10: at most `concurrency` units have started and not finished.
C10_AtMostEightInFlight == Cardinality(InFlight) <= concurrency

C10_Witness ==
    /\ Cardinality(InFlight) = concurrency
    /\ \E i \in DOMAIN unit : unit[i] = "queued"
    /\ ~git_download_cancelled

\* The processed_files of the events emitted by the fetch units, in order.
UnitEvents ==
    SelectSeq(events, LAMBDA e : e.stage = "downloading" /\ e.processed_files >= 1)

\* C11: no counter update is lost: at every moment of a batch the two
\* counters are the number and the bytes of the files written so far, the
\* units' events carry 1, 2, ... in order, each once, and a batch that
\* returned success returned these values.
C11_NoLostUpdate ==
    unit # <<>> =>
        /\ downloaded_count = Cardinality(OkUnits)
        /\ total_size = SumSizes(OkUnits)
        /\ Len(UnitEvents) = downloaded_count
        /\ \A k \in 1..Len(UnitEvents) : UnitEvents[k].processed_files = k
        /\ result.status = "ok" =>
              /\ result.files_count = Cardinality(OkUnits)
              /\ result.total_size = SumSizes(OkUnits)

C11_Witness ==
    /\ result.status = "ok"
    /\ Cardinality(OkUnits) = 2
    /\ \E i \in DOMAIN results : results[i] = "ReadError"
    /\ result.total_size = 9

\* ------------------------------------------------------------ two runs
\* The command is invoked again with the same url_info, options and remote
\* content after a run that returned a result, the output directory having
\* been emptied; what the first run left is kept for comparison.
RunAgain ==
    /\ pc = "done"
    /\ result.status = "ok"
    /\ ~firstRun.done
    /\ firstRun' = [done |-> TRUE, fs |-> fs,
                    output_path |-> result.output_path,
                    archive |-> archiveReqs > 0]
    /\ pc' = "init"
    /\ events' = <<>>
    /\ result' = NoResult
    /\ files' = <<>>
    /\ stack' = <<>>
    /\ listReq' = <<>>
    /\ unit' = <<>>
    /\ results' = <<>>
    /\ downloaded_count' = 0
    /\ total_size' = 0
    /\ downloaded' = 0
    /\ chunks' = 0
    /\ archive' = <<>>
    /\ idx' = 0
    /\ matching_files' = 0
    /\ extracted_count' = 0
    /\ total_extracted_size' = 0
    /\ fs' = {}
    /\ dirs' = {}
    /\ tmp' = "none"
    /\ listReqs' = <<>>
    /\ archiveReqs' = 0
    /\ dlReqs' = {}
    /\ netDone' = FALSE
    /\ listFailed' = NoErr
    /\ listResp' = NoResponse
    /\ archiveResp' = NoResponse
    /\ UNCHANGED <<input, git_download_cancelled, cancelEarly,
                   inflightAtCancel, writtenAfterCancel, otherRun>>

InitTwice ==
    \E r \in Repos, p \in {<<>>, <<"docs">>},
       o \in [flatten_structure : BOOLEAN, create_subfolder : BOOLEAN] :
        InitWith(r, p, o)

\* Two runs one after the other, never cancelled; the disk does not fail,
\* a listing request may fail with a network error and a file's download
\* with an HTTP status.
NextTwice ==
    \/ StartRun(TRUE)
    \/ SelectStrategy
    \/ ListResponseOk(TRUE)
    \/ ListResponseFail("NetworkError")
    \/ \E i \in DOMAIN unit : UnitStart(i, TRUE)
    \/ \E i \in DOMAIN unit, o \in {"HttpError", "ok"} : UnitResponse(i, o)
    \/ FetchFinish
    \/ ArchiveResponse("ok")
    \/ \E sz \in ChunkSizes, tick \in BOOLEAN : StreamChunk(sz, tick, "ok")
    \/ StreamEnd("ok", Zipball(remote))
    \/ ExtractEntry("ok")
    \/ ExtractFinish
    \/ RunAgain

SpecTwice == InitTwice /\ [][NextTwice]_vars

\* C12: two runs with the same input that both returned a result left the
\* same files: the same paths, each with the content of the same source.
C12_SameFilesTwice ==
    (firstRun.done /\ result.status = "ok") => fs = firstRun.fs

\* The remote files the run was asked for: the entries of kind "file"
\* strictly under the requested subpath.
RequestedFiles ==
    {i \in 1..Len(remote) :
        /\ remote[i].kind = "file"
        /\ IsPrefix(url_info.path, remote[i].path)
        /\ Len(remote[i].path) > Len(url_info.path)}

\* C13: after a run that returned a result, every requested remote file
\* exists at its computed output path with the length of its source.
C13_EveryFileWritten ==
    result.status = "ok" =>
        \A i \in RequestedFiles :
            \E f \in fs :
                /\ f.path = OutputFilePath(result.output_path,
                                           DropPrefix(url_info.path,
                                                      remote[i].path),
                                           options.flatten_structure)
                /\ f.size = remote[i].size

\* The paths of a set of written files, relative to an output directory.
RelPaths(disk_files, out) == {DropPrefix(out, f.path) : f \in disk_files}

\* C14: a listing run and an archive run with the same input (non-empty
\* subpath) that both returned a result have the same output path and the
\* same set of file paths relative to it.
C14_SameLayoutBothStrategies ==
    ( /\ firstRun.done
      /\ result.status = "ok"
      /\ url_info.path # <<>>
      /\ firstRun.archive # (archiveReqs > 0) ) =>
        /\ result.output_path = firstRun.output_path
        /\ RelPaths(fs, result.output_path) =
               RelPaths(firstRun.fs, firstRun.output_path)

\* C15: the output path of a run that returned a result is the requested
\* output directory when create_subfolder is not set; when it is set, it is
\* that directory joined with the last segment of the subpath, or with the
\* repository name when the subpath is empty, whichever strategy ran.
C15_OutputPath ==
    result.status = "ok" =>
        result.output_path =
            IF options.create_subfolder
              THEN BaseOutput \o
                     <<IF url_info.path = <<>> THEN url_info.repo
                       ELSE LastSeg(url_info.path)>>
              ELSE BaseOutput

C15_Witness ==
    /\ result.status = "ok"
    /\ options.create_subfolder
    /\ archiveReqs = 0
    /\ result.output_path = <<"out", "docs">>
    /\ \E f \in fs : f.path = <<"out", "docs", "sub", "a.txt">>

\* C16: for a non-empty subpath under which the remote tree has nothing but
\* folders, no run returns a result or emits a complete event, and no run
\* starts extracting; a run that has returned has returned an error.
C16_MissingFolderFails ==
    ( /\ url_info.path # <<>>
      /\ \A i \in 1..Len(remote) :
            (IsPrefix(url_info.path, remote[i].path)
               /\ Len(remote[i].path) > Len(url_info.path))
              => remote[i].kind = "dir" ) =>
        /\ result.status # "ok"
        /\ ~HasComplete
        /\ pc # "extract"
        /\ fs = {}
        /\ pc = "done" => result.status = "err"

C16_Witness ==
    /\ url_info.path = <<"missing">>
    /\ pc = "done"
    /\ listFailed.kind = "PathNotFound"
    /\ archiveReqs = 1
    /\ result.err.kind = "FolderNotFound"

\* C17: the temporary directory of an archive run exists only while the
\* run is streaming or extracting; once the run has returned, by whichever
\* exit, the directory and the archive file in it are gone.
C17_TempRemoved ==
    /\ pc = "done" => tmp # "exists"
    /\ tmp = "exists" => pc \in {"streaming", "extract"}
    /\ pc \in {"streaming", "extract"} => tmp = "exists"

C17_Witness ==
    /\ pc = "done"
    /\ tmp = "removed"
    /\ result = Failure(CancelledErr)
    /\ extracted_count > 0
    /\ fs # {}

\* ------------------------------------------------- a second invocation
\* lib.rs:1633-1637 of another invocation of download_github_folder, made
\* while this run is in flight: it resets the flag of the one AppState
\* (lib.rs:87, 2208) that every invocation and cancel_git_download share.
OtherRunStart ==
    /\ pc \notin {"init", "done"}
    /\ ~otherRun
    /\ otherRun' = TRUE
    /\ git_download_cancelled' = FALSE
    /\ UNCHANGED <<input, pc, events, result, lister, fetcher, zip, disk, net,
                   cancelEarly, inflightAtCancel, writtenAfterCancel,
                   listFailed, firstRun, listResp, archiveResp>>

NextTwoRuns == Next \/ OtherRunStart

SpecTwoRuns == Init /\ [][NextTwoRuns]_vars

\* C18: while a run is in flight, a cancellation requested for it stays
\* requested: the flag the run reads never goes back from set to clear,
\* whatever else is started meanwhile.
C18_RunOwnsItsFlag ==
    [][(pc \notin {"init", "done"} /\ git_download_cancelled)
          => git_download_cancelled']_vars

\* C19: no request is issued while the flag is set: a step of a run in
\* flight that starts with the flag set sends no listing request, no
\* archive request and no file download request.
C19_NoRequestAfterCancel ==
    [][(pc \notin {"init", "done"} /\ git_download_cancelled)
          => /\ listReqs' = listReqs
             /\ archiveReqs' = archiveReqs
             /\ dlReqs' = dlReqs]_vars

\* C20: the stages of the events of a run never go back in the order
\* fetching, listing, downloading, extracting, complete; the first event is
\* fetching at 0 percent; listing occurs only with a non-empty subpath,
\* extracting only in a run that sent the archive request; a complete event
\* is the last event.
C20_StageOrder ==
    LET rank(s) == CASE s = "fetching" -> 1
                     [] s = "listing" -> 2
                     [] s = "downloading" -> 3
                     [] s = "extracting" -> 4
                     [] s = "complete" -> 5
                     [] OTHER -> 0
    IN  /\ pc # "init" =>
              events # <<>> /\ events[1] = Event("fetching", 0, None, None)
        /\ \A i \in 1..Len(events) : rank(events[i].stage) > 0
        /\ \A i \in 1..(Len(events) - 1) :
              rank(events[i].stage) <= rank(events[i + 1].stage)
        /\ \A i \in 1..Len(events) :
              /\ events[i].stage = "listing" => url_info.path # <<>>
              /\ events[i].stage = "extracting" => archiveReqs = 1
              /\ events[i].stage = "complete" => i = Len(events)

C20_Witness ==
    /\ result.status = "ok"
    /\ listFailed # NoErr
    /\ events[2].stage = "listing"
    /\ events[3].stage = "downloading"
    /\ \E i \in 1..Len(events) : events[i].stage = "extracting"
    /\ LastEvent.stage = "complete"

\* The archive entries of index above i that are written in disk_files.
WrittenAfter(disk_files, a, i) ==
    {j \in (i + 1)..Len(a) :
        \E f \in disk_files : f.src = DropPrefix(<<a[1].path[1]>>, a[j].path)}

\* C21: a run whose extraction failed on an entry (reading it, creating its
\* parent directory, creating its file or copying its bytes) has returned
\* that error: it emitted no complete event, extracted no entry after the
\* failing one, and counted only the entries extracted before it.
C21_ExtractFailureFatal ==
    result.err.kind \in ExtractOutcomes \ {"ok"} =>
        /\ pc = "done"
        /\ result.status = "err"
        /\ ~HasComplete
        /\ idx < Len(archive)
        /\ WrittenAfter(fs, archive, idx + 1) = {}
        /\ LastEvent.stage = "extracting"
        /\ LastEvent.processed_files = extracted_count

C21_Witness ==
    /\ pc = "done"
    /\ result.err.kind = "CopyError"
    /\ extracted_count = 1
    /\ \E j \in (idx + 2)..Len(archive) :
          StartsWithFilter(archive[j],
                           FilterPrefix(<<archive[1].path[1]>>, url_info.path))
            /\ ~IsDirEntry(archive[j])
    /\ \E f \in fs : f.size = None

\* The output path of archive entry j.
EntryOutput(a, j) ==
    OutputFilePath(ZipFinalOutput(url_info, options),
                   DropPrefix(FilterPrefix(<<a[1].path[1]>>, url_info.path),
                              a[j].path),
                   options.flatten_structure)

\* The entries among the first i that the extraction writes.
Extractable(a, i) ==
    {j \in 1..Min(i, Len(a)) :
        /\ StartsWithFilter(a[j], FilterPrefix(<<a[1].path[1]>>,
                                               url_info.path))
        /\ ~IsDirEntry(a[j])}

\* C22: a turn of the extraction loop that starts with the flag set ends
\* the run with Cancelled, writes nothing and emits nothing, whichever
\* entry it is, the last one included; a run cancelled in the extraction
\* has no complete event and has kept every file it had extracted.
C22_ExtractCancel ==
    /\ []( (result = Failure(CancelledErr) /\ archive # <<>>) =>
              /\ pc = "done"
              /\ ~HasComplete
              /\ idx < Len(archive)
              /\ WrittenAfter(fs, archive, idx) = {}
              /\ extracted_count = Cardinality(Extractable(archive, idx))
              /\ \A j \in Extractable(archive, idx) :
                    \E f \in fs : f.path = EntryOutput(archive, j) )
    /\ [][ ( /\ pc = "extract"
             /\ git_download_cancelled
             /\ idx < Len(archive)
             /\ (pc' # pc \/ idx' # idx) ) =>
                /\ pc' = "done"
                /\ result' = Failure(CancelledErr)
                /\ fs' = fs
                /\ events' = events ]_vars

C22_Witness ==
    /\ result = Failure(CancelledErr)
    /\ archive # <<>>
    /\ idx = Len(archive) - 1
    /\ extracted_count >= 2
    /\ Cardinality(fs) >= 2

\* C23: while the body is streamed, no chunk is written once the flag is
\* set: the turn of the loop that receives a chunk with the flag set ends
\* the run with Cancelled, whatever the chunk holds; a run cancelled while
\* streaming never started to extract.
C23_StreamCancel ==
    /\ []( (result = Failure(CancelledErr) /\ tmp = "removed"
              /\ archive = <<>>) =>
              /\ pc = "done"
              /\ fs = {}
              /\ ~HasComplete
              /\ \A i \in 1..Len(events) : events[i].stage # "extracting" )
    /\ [][ (pc = "streaming" /\ git_download_cancelled) =>
              /\ downloaded' = downloaded
              /\ chunks' = chunks
              /\ (pc' = "done" /\ events' = events) =>
                    result' = Failure(CancelledErr) ]_vars

C23_Witness ==
    /\ result = Failure(CancelledErr)
    /\ tmp = "removed"
    /\ archive = <<>>
    /\ chunks = 1
    /\ downloaded = 700000
    /\ LastEvent = Event("downloading", 15, None, None)

\* C24: a listing response that failed by its status is classified by it:
\* 403 with the remaining-quota header equal to 0 is RateLimited, any other
\* 403 AccessDenied, 404 PathNotFound, any other status outside 2xx the
\* generic ApiError; the lister returns that error, no file of the
\* directory asked for is listed and no file is fetched.
C24_ListClassification ==
    listResp # NoResponse =>
        LET zero == listResp.present /\ listResp.value = <<"0">>
            kind == IF listResp.status = 403 /\ zero THEN "RateLimited"
                    ELSE IF listResp.status = 403 THEN "AccessDenied"
                    ELSE IF listResp.status = 404 THEN "PathNotFound"
                    ELSE "ApiError"
        IN  /\ listResp.status \notin 200..299
            /\ listFailed = ListError(kind, listReq)
            /\ \A i \in 1..Len(files) :
                  Parent(files[i].relative_path) # listReq
            /\ unit = <<>>
            /\ dlReqs = {}

C24_Witness ==
    /\ listResp = Response(403, TRUE, <<"1", "0">>)
    /\ listFailed.kind = "AccessDenied"
    /\ listReq = <<"docs", "sub">>
    /\ files # <<>>
    /\ result = Failure(listFailed)

\* C25: a zipball response with a status outside 2xx is returned as an
\* error: 404 RepoOrBranchNotFound, 403 RateLimited, any other the generic
\* ApiError; no temp directory was created, no byte streamed and nothing
\* written under the output path.
C25_ArchiveClassification ==
    (archiveResp # NoResponse /\ archiveResp.status \notin 200..299) =>
        LET kind == IF archiveResp.status = 404 THEN "RepoOrBranchNotFound"
                    ELSE IF archiveResp.status = 403 THEN "RateLimited"
                    ELSE "ApiError"
        IN  /\ pc = "done"
            /\ result = Failure(ArchiveError(kind))
            /\ tmp = "none"
            /\ downloaded = 0
            /\ chunks = 0
            /\ fs = {}
            /\ dirs = {}
            /\ LastEvent = Event("downloading", 10, None, None)

C25_Witness ==
    /\ archiveResp.status = 403
    /\ result.err.kind = "RateLimited"
    /\ listFailed.kind = "PathNotFound"
    /\ tmp = "none"

\* The entries of a that are files below the requested subtree, told from
\* their names alone.
FilesUnder(a, path) ==
    {j \in 1..Len(a) : /\ a[j].kind # "dir"
                       /\ Len(a[j].path) > Len(path) + 1
                       /\ SubSeq(a[j].path, 2, Len(path) + 1) = path}

\* C26: an archive without entries fails with EmptyArchive; a non-empty
\* subpath under which the archive holds no file fails with FolderNotFound;
\* neither extracts a file, and the extraction loop is entered only past both
\* tests.  With an empty subpath and no file in the archive the run succeeds
\* with files_count 0.
C26_EmptyAndNotFound ==
    /\ (pc = "done" /\ result.status = "err"
          /\ result.err.kind = "EmptyArchive") =>
           /\ archive = <<>>
           /\ fs = {} /\ extracted_count = 0 /\ ~HasComplete
           /\ LastEvent = Event("extracting", 55, None, None)
    /\ (pc = "done" /\ result.status = "err"
          /\ result.err.kind = "FolderNotFound") =>
           /\ archive # <<>>
           /\ url_info.path # <<>>
           /\ FilesUnder(archive, url_info.path) = {}
           /\ fs = {} /\ extracted_count = 0 /\ ~HasComplete
           /\ LastEvent = Event("extracting", 55, None, None)
    /\ pc = "extract" =>
           /\ archive # <<>>
           /\ url_info.path # <<>> => FilesUnder(archive, url_info.path) # {}
    /\ (pc = "done" /\ result.status = "ok" /\ archiveReqs = 1) =>
           /\ archive # <<>>
           /\ url_info.path # <<>> => FilesUnder(archive, url_info.path) # {}
           /\ FilesUnder(archive, url_info.path) = {} =>
                 /\ result.files_count = 0
                 /\ fs = {}

C26_Witness ==
    /\ pc = "done" /\ result.status = "ok" /\ archiveReqs = 1
    /\ url_info.path = <<>> /\ FilesUnder(archive, <<>>) = {}
    /\ result.files_count = 0
    /\ remote = RepoEmpty

\* C27: a turn of the extraction loop writes a file exactly when its entry
\* is a file below the requested subtree, a folder beside it whose name
\* begins with the same text excluded; the file is written at the entry's
\* name with the filter prefix removed (its last segment under
\* flatten_structure), below the final output directory.
C27_ExtractFilter ==
    [][ (pc = "extract" /\ idx < Len(archive)) =>
          LET j == idx + 1
              wanted == j \in FilesUnder(archive, url_info.path)
              rel == SubSeq(archive[j].path, Len(url_info.path) + 2,
                            Len(archive[j].path))
              out == ZipFinalOutput(url_info, options) \o
                       (IF options.flatten_structure
                          THEN <<rel[Len(rel)]>> ELSE rel)
          IN  /\ fs' # fs =>
                    /\ wanted
                    /\ \E f \in fs' :
                          /\ f.path = out
                          /\ f.src = Tail(archive[j].path)
                          /\ fs' = {g \in fs : g.path # out} \cup {f}
              /\ (idx' = j /\ wanted) =>
                    \E f \in fs' : /\ f.path = out
                                   /\ f.src = Tail(archive[j].path)
                                   /\ f.size = archive[j].size
              /\ (idx' = j /\ ~wanted) => fs' = fs ]_vars

C27_Witness ==
    /\ pc = "done" /\ result.status = "ok"
    /\ remote = RepoSibling /\ url_info.path = <<"docs">>
    /\ archive = Zipball(RepoSibling)
    /\ ~options.flatten_structure
    /\ result.files_count = 1
    /\ \E f \in fs : f.src = <<"docs", "a.txt">>
    /\ \A f \in fs : f.src # <<"docs-old", "c.txt">>

\* The final output directory of the strategy that has written.
FinalOutput ==
    IF archiveReqs = 0 THEN FolderFinalOutput(url_info, options)
    ELSE ZipFinalOutput(url_info, options)

\* C28: under flatten_structure, in both strategies, every file on disk
\* lies directly in the final output directory under the last segment of its
\* source path and no directory exists below the final output directory; a
\* successful run counts every file it wrote, those overwritten by a later
\* file of the same name included.
C28_Flatten ==
    options.flatten_structure =>
        /\ \A f \in fs : /\ Parent(f.path) = FinalOutput
                         /\ LastSeg(f.path) = LastSeg(f.src)
        /\ \A d \in dirs : ~(IsPrefix(FinalOutput, d) /\ d # FinalOutput)
        /\ (pc = "done" /\ result.status = "ok") =>
              /\ archiveReqs = 0 =>
                    /\ result.files_count = Cardinality(OkUnits)
                    /\ \A i \in OkUnits : \E f \in fs :
                          f.path = FinalOutput \o
                                     <<LastSeg(files[i].relative_path)>>
              /\ archiveReqs = 1 =>
                    /\ result.files_count =
                          Cardinality(FilesUnder(archive, url_info.path))
                    /\ {f.path : f \in fs} =
                          {FinalOutput \o <<LastSeg(archive[j].path)>> :
                             j \in FilesUnder(archive, url_info.path)}

C28_Witness ==
    /\ options.flatten_structure
    /\ pc = "done" /\ result.status = "ok"
    /\ archiveReqs = 0
    /\ result.files_count = 3
    /\ Cardinality(fs) = 2
    /\ \E f \in fs : f.src = <<"docs", "sub", "a.txt">>
                       \/ f.src = <<"docs", "a.txt">>

\* C29: in the listing strategy every event of a completed file has
\* percent min(95, 10 + floor(85 * processed / total)), which lies in
\* 10..95; the events of stage listing have percent in 0..10; the event of
\* the last file has percent 95.
C29_FetchPercents ==
    archiveReqs = 0 =>
        \A k \in 1..Len(events) :
            LET e == events[k]
            IN  /\ e.stage = "listing" => e.percent \in 0..10
                /\ (e.stage = "downloading" /\ e.processed_files >= 1) =>
                      /\ e.percent =
                           Min(95, 10 + ((85 * e.processed_files)
                                            \div e.total_files))
                      /\ e.percent \in 10..95
                      /\ e.processed_files = e.total_files => e.percent = 95

\* C30: in the archive strategy every downloading event has percent in
\* 10..50, the event of a turn of the streaming loop having
\* min(50, 15 + min(whole megabytes downloaded, 35)); every extracting event
\* has percent in 55..95, the event of an extracted entry having
\* min(95, 60 + floor(35 * extracted / max(matching, 1))).
C30_ArchivePercents ==
    /\ [](archiveReqs = 1 =>
            \A k \in 1..Len(events) :
                LET e == events[k]
                IN  /\ e.stage = "downloading" => e.percent \in 10..50
                    /\ e.stage = "extracting" => e.percent \in 55..95
                    /\ (e.stage = "extracting" /\ e.processed_files >= 1) =>
                          e.percent =
                            Min(95, 60 + ((35 * e.processed_files) \div
                                            Max(e.total_files, 1))))
    /\ [][ (pc = "streaming" /\ pc' = "streaming" /\ events' # events) =>
             /\ Len(events') = Len(events) + 1
             /\ events'[Len(events')].stage = "downloading"
             /\ events'[Len(events')].percent =
                  Min(50, 15 + Min(downloaded' \div 1000000, 35)) ]_vars

C30_Witness ==
    /\ pc = "done" /\ result.status = "ok" /\ archiveReqs = 1
    /\ downloaded > 35000000
    /\ \E k \in 1..Len(events) :
          events[k].stage = "downloading" /\ events[k].percent = 45
    /\ \E k \in 1..Len(events) :
          /\ events[k].stage = "extracting"
          /\ events[k].processed_files = 17
          /\ events[k].percent = 67

\* The folders of the tree r at or below p, in the order of a depth-first
\* visit (r lists its entries in that order).
FoldersBelow(r, p) ==
    LET below == SelectSeq(r, LAMBDA e : e.kind = "dir" /\ IsPrefix(p, e.path))
    IN  [k \in 1..Len(below) |-> below[k].path]

\* The items of r below p for which a descriptor is due.
DueItems(r, p) ==
    {i \in 1..Len(r) : /\ r[i].kind = "file" /\ r[i].url
                       /\ IsPrefix(p, r[i].path)
                       /\ Len(r[i].path) > Len(p)}

\* C31: while no listing request has failed, the requests sent are the
\* first folders of the depth-first visit of the requested folder, one per
\* folder; once the listing has returned they are all of them, and the
\* descriptors are one for each file item with a download URL at or below
\* the requested folder, with the item's path and size, and no other.
C31_ListerComplete ==
    (IsDir(remote, url_info.path) /\ listFailed = NoErr) =>
        LET want == FoldersBelow(remote, url_info.path)
        IN  /\ Len(listReqs) <= Len(want)
            /\ listReqs = SubSeq(want, 1, Len(listReqs))
            /\ (pc \in {"fetch", "done"} /\ result.err.kind # "ClientError") =>
                  /\ listReqs = want
                  /\ Len(files) = Cardinality(DueItems(remote, url_info.path))
                  /\ \A i \in DueItems(remote, url_info.path) :
                        \E k \in 1..Len(files) :
                            /\ files[k].relative_path = remote[i].path
                            /\ files[k].download_url = remote[i].path
                            /\ files[k].size = remote[i].size

C31_Witness ==
    /\ remote = RepoTree
    /\ pc = "fetch"
    /\ Len(files) = 3
    /\ listReqs = << <<"docs">>, <<"docs", "s1">>, <<"docs", "s1", "deep">>,
                     <<"docs", "s2">> >>

\* C32: a listing that returned without error and without a descriptor
\* ends the run with the PathEmpty error; no directory was created, no file
\* written, no download and no zipball request sent.
C32_EmptyListing ==
    /\ ( /\ IsDir(remote, url_info.path) /\ listFailed = NoErr
         /\ DueItems(remote, url_info.path) = {}
         /\ listReqs = FoldersBelow(remote, url_info.path)
         /\ pc # "listing" ) =>
            /\ pc = "done"
            /\ result = Failure(PathEmptyErr(url_info.path))
    /\ result.err.kind = "PathEmpty" =>
            /\ pc = "done" /\ result.status = "err"
            /\ Contains(result.err.msg,
                        <<"is", "empty", "or", "not", "found">>)
            /\ files = <<>> /\ listFailed = NoErr
            /\ dirs = {} /\ fs = {}
            /\ unit = <<>> /\ dlReqs = {}
            /\ archiveReqs = 0
            /\ ~HasComplete
            /\ LastEvent = Event("listing", 5, None, None)

C32_Witness ==
    /\ result.err.kind = "PathEmpty"
    /\ url_info.path = <<"vendor">>
    /\ Len(listReqs) = 2

\* C33: the decision taken after a failed listing is the one the command
\* takes for the same failure (same status, same quota header) of a request
\* for any other subpath.
C33_DecisionIgnoresText ==
    (listFailed # NoErr /\ Len(listReqs) = 1) =>
        \A p \in SubPaths \ {<<>>} :
            NoFallback(ListError(listFailed.kind, p)) = (archiveReqs = 0)

\* C34: the complete event is emitted exactly by the runs that return a
\* result: it is in the events iff the run has returned Ok, it is then the
\* last event and the only one of its stage, and a run that has returned an
\* error has none.
C34_CompleteIffSuccess ==
    /\ HasComplete <=> result.status = "ok"
    /\ result.status = "ok" =>
          /\ pc = "done"
          /\ LastEvent.stage = "complete"
          /\ \A k \in 1..(Len(events) - 1) : events[k].stage # "complete"
    /\ result.status = "err" => ~HasComplete
    /\ (pc = "done") = (result.status \in {"ok", "err"})

C34_Witness ==
    /\ pc = "done"
    /\ result.status = "ok"
    /\ archiveReqs = 1
    /\ listFailed.kind = "NetworkError"
    /\ LastEvent = Event("complete", 100, 4, 4)

\* The listing has returned Ok to the command.
ListingSucceeded ==
    /\ url_info.path # <<>>
    /\ listFailed = NoErr
    /\ listReqs # <<>>
    /\ pc \in {"fetch", "done"}

\* C35: the zipball request is sent at most once, and in a run with a
\* subpath only after the listing has failed; once the listing has
\* succeeded none is sent, a later error (empty list, output directory,
\* Cancelled from the fetcher) being the run's result; no folder is listed
\* twice, so the traversal is performed once.
C35_FallbackOnlyForListing ==
    /\ archiveReqs \in {0, 1}
    /\ (archiveReqs = 1 /\ url_info.path # <<>>) =>
          /\ listFailed # NoErr
          /\ unit = <<>> /\ dlReqs = {}
    /\ ListingSucceeded =>
          /\ archiveReqs = 0
          /\ pc \notin {"archive_req", "streaming", "extract"}
          /\ pc = "done" =>
                \/ result.status = "ok"
                \/ result.err.kind \in {"PathEmpty", "OutputDirError",
                                        "Cancelled"}
    /\ \A i, j \in 1..Len(listReqs) : listReqs[i] = listReqs[j] => i = j
    /\ listReqs # <<>> => listReqs[1] = url_info.path

C35_Witness ==
    /\ ListingSucceeded
    /\ pc = "done"
    /\ result.err.kind = "OutputDirError"
    /\ Len(listReqs) = 4
    /\ archiveReqs = 0

\* C36: a failed listing request, at whatever depth, ends the listing: no
\* fetch unit exists and no download request is sent, the files listed
\* before it are in no event and no result; the error is the one of the
\* failed request and the fallback is decided on it as for a root request.
C36_NestedFailureFatal ==
    listFailed # NoErr =>
        /\ pc \notin {"listing", "fetch"}
        /\ unit = <<>> /\ dlReqs = {}
        /\ listFailed = ListError(listFailed.kind, listReqs[Len(listReqs)])
        /\ IF NoFallback(listFailed)
             THEN /\ pc = "done" /\ result = Failure(listFailed)
                  /\ archiveReqs = 0 /\ fs = {} /\ dirs = {}
             ELSE archiveReqs = 1
        /\ \A k \in 1..Len(events) :
              events[k].stage = "downloading" => events[k].total_files = None
        /\ result.status = "ok" =>
              result.files_count =
                  Cardinality(FilesUnder(archive, url_info.path))

C36_Witness ==
    /\ listFailed.kind = "ApiError"
    /\ Len(listReqs) = 3
    /\ Len(files) = 1
    /\ result.status = "ok"
    /\ result.files_count = 4

\* C37: the step that starts a run leaves the flag clear, before any event
\* and any request of the run; from then to the end of the run every step
\* that changes the flag is cancel_git_download setting it, so that no
\* cancellation requested during the run is cleared.
C37_OnlyCancelWritesFlag ==
    [][ /\ (pc = "init" /\ pc' # "init") =>
              /\ ~git_download_cancelled'
              /\ events = <<>> /\ listReqs = <<>> /\ archiveReqs = 0
              /\ dlReqs = {}
        /\ (pc \notin {"init", "done"}
              /\ git_download_cancelled' # git_download_cancelled) =>
              /\ git_download_cancelled'
              /\ UNCHANGED <<pc, events, result, disk, net>> ]_vars

\* The sum of the uncompressed sizes of the entries of a with index in S.
RECURSIVE SumEntrySizes(_, _)
SumEntrySizes(a, S) ==
    IF S = {} THEN 0
    ELSE LET j == CHOOSE x \in S : TRUE
         IN  a[j].size + SumEntrySizes(a, S \ {j})

\* C38: a run of the archive strategy that returned a result returned as
\* files_count the number of files the first pass counted, which is the
\* number of file entries below the requested subtree and both counts of
\* the complete event, and as total_size the sum of the uncompressed sizes
\* of these entries.
C38_ArchiveCounts ==
    (pc = "done" /\ result.status = "ok" /\ archiveReqs = 1) =>
        LET extracted == FilesUnder(archive, url_info.path)
        IN  /\ result.files_count = matching_files
            /\ result.files_count = Cardinality(extracted)
            /\ extracted_count = matching_files
            /\ LastEvent = Event("complete", 100, result.files_count,
                                 result.files_count)
            /\ result.total_size = SumEntrySizes(archive, extracted)

C38_Witness ==
    /\ pc = "done" /\ result.status = "ok" /\ archiveReqs = 1
    /\ remote = RepoSmall /\ url_info.path = <<>>
    /\ result.files_count = 5
    /\ result.total_size = 15
    /\ Cardinality(fs) = 5

\* How far the command is from its return: the stage it is in, then what
\* is left of the stage (folders to list, futures to start and to finish,
\* chunks of the body, entries of the archive).
StageRank ==
    CASE pc = "init" -> 7
      [] pc = "started" -> 6
      [] pc = "listing" -> 5
      [] pc = "fetch" -> 4
      [] pc = "archive_req" -> 3
      [] pc = "streaming" -> 2
      [] pc = "extract" -> 1
      [] pc = "done" -> 0

StageLeft ==
    CASE pc = "listing" -> Len(remote) + 1 - Len(listReqs)
      [] pc = "fetch" ->
           2 * Cardinality({i \in DOMAIN unit : unit[i] = "queued"})
             + Cardinality(InFlight)
      [] pc = "streaming" -> MaxChunks - chunks
      [] pc = "extract" -> Len(archive) - idx
      [] OTHER -> 0

Measure == 1000 * StageRank + StageLeft

\* The command can make a step: a request is awaited and returns, or a
\* future or a loop is ready to be polled.
CanStep ==
    \/ ENABLED (\E ok \in BOOLEAN : StartRun(ok))
    \/ ENABLED SelectStrategy
    \/ ENABLED (\E ok \in BOOLEAN : ListResponseOk(ok))
    \/ ENABLED (\E k \in ListFailKinds : ListResponseFail(k))
    \/ ENABLED (\E i \in DOMAIN unit, ok \in BOOLEAN : UnitStart(i, ok))
    \/ pc = "fetch" /\ InFlight # {}
    \/ ENABLED FetchFinish
    \/ ENABLED (\E o \in ArchiveOutcomes : ArchiveResponse(o))
    \/ ENABLED (\E o \in OpenOutcomes, a \in {Zipball(remote), <<>>} :
                   StreamEnd(o, a))
    \/ pc = "extract" /\ idx < Len(archive)
    \/ ENABLED ExtractFinish

\* C39: every run ends.  Until the command has returned it can always make
\* a step, its measure is a natural number, and every step other than the
\* caller's cancel command lowers the measure; the executor being fair to
\* the command and to the fetch units, the command returns, with a result
\* or an error.
C39_Terminates ==
    /\ [](/\ Measure \in Nat
          /\ pc # "done" => CanStep
          /\ Measure = 0 <=> pc = "done"
          /\ pc = "done" <=> result # NoResult)
    /\ [][~cancel_git_download => Measure' < Measure]_vars

C39_Witness ==
    /\ pc = "done"
    /\ git_download_cancelled
    /\ listFailed.kind = "ParseError"
    /\ archiveReqs = 1
    /\ result.status = "ok"

====
